---- MODULE Spec2Model ----
(***************************************************************************)
(* A state-machine model of the two GUI modules of the repository:         *)
(*   src/gui/LaserScanningGui.py      (LaserScanningGui)                   *)
(*   src/gui/confocal/confocalgui2.py (ConfocalGui, ConfocalMainWindow)    *)
(*                                                                         *)
(* Every handler of the code is one action.  The logic and save modules    *)
(* the GUIs talk to are not part of the source; they are modelled by the   *)
(* interface the specification gives them (section 6).                     *)
(*                                                                         *)
(* Wavelengths are whole nanometres.  For such values the rounding of a    *)
(* QDoubleSpinBox to its 6 decimals changes nothing, so that a spin box    *)
(* stores a value by bounding it to its range.  The comparison             *)
(* getState() is 'running' of the source is read as equality of strings.   *)
(*                                                                         *)
(* Scanner positions and ranges are floating-point numbers in the source;  *)
(* here they are counted in 1/PositionScale of the axis unit, so that a     *)
(* position can lie between two whole units.  A QSlider holds whole units   *)
(* only and takes a number by dropping its fraction.  Resolutions are whole *)
(* numbers.  The widgets that ConfocalMainWindow and the dialogs load    *)
(* from their .ui files start like the ones the code constructs itself;    *)
(* apply_scanner_constraints sets the range of each before a value is set. *)
(* The status variables _window_geometry and _window_state keep their      *)
(* value between a deactivation and the next activation.                   *)
(***************************************************************************)
EXTENDS Integers, Sequences, FiniteSets, TLC

VARIABLES
    scanning_logic,   \* the LaserScanningLogic object behind _scanning_logic
    gui,              \* the attributes of the LaserScanningGui object
    lastOp,           \* the handler or event that ran last, and what it issued
    clicks,           \* length of the current run of consecutive start_clicked calls
    fq,               \* inputs and outputs of the frequency-axis transform
    scanner_logic,    \* the ConfocalLogic object behind scannerlogic()
    cgui,             \* the attributes of the ConfocalGui object
    mw,               \* the toolkit's main window behind _mw
    saved             \* the blobs the toolkit produced at the last on_deactivate

laserVars == <<scanning_logic, gui, clicks>>
confVars == <<scanner_logic, cgui, mw, saved>>
\* what no handler of LaserScanningGui touches
rest == <<fq, confVars>>
vars == <<scanning_logic, gui, lastOp, clicks, fq, scanner_logic, cgui, mw, saved>>

None == "None"

-----------------------------------------------------------------------------
(* Bounds of the model *)

\* how often the module is activated (initUI runs)
MaxActivations == 2
\* how long a run of consecutive start_clicked calls is followed
MaxClicks == 3
\* largest wavelength the frequency transform is evaluated at
MaxLambda == 6

-----------------------------------------------------------------------------
(* Program constants *)

\* _bins_display.setRange(1, 1e4)
BinsMin == 1
BinsMax == 10000
\* _min_wavelength_display.setRange(1, 1e6)
MinWavelengthLow == 1
MinWavelengthHigh == 1000000
\* _max_wavelength_display.setRange(1, 1e4)
MaxWavelengthLow == 1
MaxWavelengthHigh == 10000
\* 3.0e17 and 6.0e17, in units of 1e17
C3e17 == 3
C6e17 == 6

-----------------------------------------------------------------------------
(* The toolkit's spin boxes *)

\* QAbstractSpinBox bounds every value it is given to its range
Bound(v, lo, hi) == IF v < lo THEN lo ELSE IF v > hi THEN hi ELSE v

\* QSpinBox.setValue on the bins input
BinsSetValue(v) == Bound(v, BinsMin, BinsMax)

\* QDoubleSpinBox.setValue on the min-wavelength input
MinWavelengthSetValue(v) == Bound(v, MinWavelengthLow, MinWavelengthHigh)

\* QDoubleSpinBox.setValue on the max-wavelength input
MaxWavelengthSetValue(v) == Bound(v, MaxWavelengthLow, MaxWavelengthHigh)

-----------------------------------------------------------------------------
(* The frequency axis of updateData *)

\* the transform, had it multiplied by x instead of dividing: 3.0e17*x - 6.0e17/s
XAxisHz_Times(x, s) == [num |-> C3e17 * x * s - C6e17, den |-> s]

\* 3.0e17/x - 6.0e17/s as the exact fraction (3s - 6x)/(x s), in units of 1e17
XAxisHz(x, s) == [num |-> C3e17 * s - C6e17 * x, den |-> x * s]

\* f > g for two fractions with positive denominators
FracGreater(f, g) == f.num * g.den > g.num * f.den

\* the transform applied to every element of the histogram axis
XAxisHzAll(axis, s) == [i \in DOMAIN axis |-> XAxisHz(axis[i], s)]

-----------------------------------------------------------------------------
(* Inputs *)

\* what the logic holds after an acquisition step: the current wavelength, the
\* extreme wavelengths seen, and the histogram arrays
LogicSamples ==
    { [current_wavelength |-> 632, intern_xmin |-> 600, intern_xmax |-> 650,
       histogram_axis |-> <<600, 625, 650>>, histogram |-> <<5, 9, 2>>,
       sumhisto |-> <<1, 3, 1>>],
      [current_wavelength |-> 700, intern_xmin |-> 0, intern_xmax |-> 20000,
       histogram_axis |-> <<610, 640>>, histogram |-> <<7, 4>>,
       sumhisto |-> <<2, 2>>],
      [current_wavelength |-> 632, intern_xmin |-> 2000000, intern_xmax |-> 0,
       histogram_axis |-> <<600, 625, 650>>, histogram |-> <<0, 0, 0>>,
       sumhisto |-> <<0, 0, 0>>] }

\* values a user types into the three inputs (the inputs accept only values
\* of their range)
BinsInputs == {1, 200}
MinWavelengthInputs == {620}
MaxWavelengthInputs == {640}

\* the logic's histogram settings when the program starts
InitialSettings ==
    { [bins |-> 200, xmin |-> 650, xmax |-> 750],
      [bins |-> 20000, xmin |-> 0, xmax |-> 20000] }

\* A file name is the sequence of its parts.  The save logic resolves a
\* directory in the form of the platform it runs on: sep is os.sep there, and
\* path is what get_path_for_module returns.
PathSamples ==
    { [sep |-> "\\", path |-> <<"C:", "\\", "Data", "\\", "LaserScanning">>],
      [sep |-> "/", path |-> <<"/", "data", "/", "LaserScanning">>] }
\* results of time.strftime('%Y-%m-%d_laser_scan_from_%Hh%Mm%Ss')
StampSamples == {"t1", "t2"}

-----------------------------------------------------------------------------
(* The logic module, by its interface *)

start_scanning(l) == [l EXCEPT !.state = "running"]

stop_scanning(l) == [l EXCEPT !.state = "idle"]

logic_recalculate_histogram(l, bins, xmin, xmax) ==
    [l EXCEPT !.bins = bins, !.xmin = xmin, !.xmax = xmax]

getState(l) == l.state

-----------------------------------------------------------------------------
(* Records of what a handler issued *)

Call(fn, args) == [fn |-> fn, args |-> args]

Op(name, pre, calls, passes) ==
    [op |-> name, pre |-> pre, calls |-> calls, passes |-> passes]

\* the calls of the last handler that are named fn
CallsOf(fn) == SelectSeq(lastOp.calls, LAMBDA c : c.fn = fn)

Commands == {"start_scanning", "stop_scanning", "recalculate_histogram", "save_data"}

\* the backend commands the last handler issued
CommandsIssued == SelectSeq(lastOp.calls, LAMBDA c : c.fn \in Commands)

\* the image files the last handler exported
FilesExported == SelectSeq(lastOp.calls, LAMBDA c : c.fn = "export")

NoCurve == [x |-> <<>>, y |-> <<>>]

-----------------------------------------------------------------------------
(* LaserScanningGui *)

\* the object after __init__: no widget exists yet
GuiInit ==
    [active |-> FALSE, start_stop_button |-> None, bins_display |-> 0,
     min_wavelength_display |-> 0, max_wavelength_display |-> 0,
     wavelength_label |-> None, auto_min_label |-> None, auto_max_label |-> None,
     curve1 |-> NoCurve, curve2 |-> NoCurve, curve3 |-> NoCurve,
     save_PNG |-> FALSE, connections |-> 0]

\* the connector of a module that is not loaded holds no logic object
NoLogic ==
    [connected |-> FALSE, state |-> "idle", bins |-> 0, xmin |-> 0, xmax |-> 0,
     current_wavelength |-> 0, intern_xmin |-> 0, intern_xmax |-> 0,
     histogram_axis |-> <<>>, histogram |-> <<>>, sumhisto |-> <<>>]

InitLaser ==
    /\ \E s \in InitialSettings, d \in LogicSamples :
          scanning_logic =
              [connected |-> TRUE,
               state |-> "idle", bins |-> s.bins, xmin |-> s.xmin, xmax |-> s.xmax,
               current_wavelength |-> d.current_wavelength,
               intern_xmin |-> d.intern_xmin, intern_xmax |-> d.intern_xmax,
               histogram_axis |-> d.histogram_axis, histogram |-> d.histogram,
               sumhisto |-> d.sumhisto]
    /\ gui = GuiInit
    /\ clicks = 0

\* onactivate: build the window and its widgets, connect the signals
initUI ==
    /\ scanning_logic.connected
    /\ gui.connections < MaxActivations
    /\ gui' = [active |-> TRUE,
               start_stop_button |-> "Start",
               bins_display |-> BinsSetValue(scanning_logic.bins),
               min_wavelength_display |-> MinWavelengthSetValue(scanning_logic.xmin),
               max_wavelength_display |-> MaxWavelengthSetValue(scanning_logic.xmax),
               wavelength_label |-> "xxx",
               auto_min_label |-> "Minimum: xxx.xxxxxx (nm)   ",
               auto_max_label |-> "Maximum: xxx.xxxxxx (nm)   ",
               curve1 |-> NoCurve, curve2 |-> NoCurve, curve3 |-> NoCurve,
               save_PNG |-> TRUE,
               connections |-> gui.connections + 1]
    /\ lastOp' = Op("initUI", None, <<>>, 0)
    /\ clicks' = 0
    /\ UNCHANGED <<scanning_logic, rest>>

\* updateData, had it left the button text alone
updateData_KeepsLabel(g, l) ==
    [g EXCEPT
        !.wavelength_label = <<l.current_wavelength, " nm">>,
        !.auto_min_label = <<"Minimum: ", l.intern_xmin, " (nm)   ">>,
        !.auto_max_label = <<"Maximum: ", l.intern_xmax, " (nm)   ">>,
        !.curve1 = [x |-> l.histogram_axis, y |-> l.histogram],
        !.curve2 = [x |-> l.histogram_axis, y |-> l.sumhisto],
        !.curve3 = [x |-> XAxisHzAll(l.histogram_axis, l.xmax + l.xmin),
                    y |-> l.histogram]]

\* one pass of updateData over the widgets g, reading the logic l
updateData(g, l) ==
    [g EXCEPT
        !.wavelength_label = <<l.current_wavelength, " nm">>,
        !.auto_min_label = <<"Minimum: ", l.intern_xmin, " (nm)   ">>,
        !.auto_max_label = <<"Maximum: ", l.intern_xmax, " (nm)   ">>,
        !.curve1 = [x |-> l.histogram_axis, y |-> l.histogram],
        !.curve2 = [x |-> l.histogram_axis, y |-> l.sumhisto],
        !.curve3 = [x |-> XAxisHzAll(l.histogram_axis, l.xmax + l.xmin),
                    y |-> l.histogram],
        !.start_stop_button = IF getState(l) = "running" THEN "Stop" ELSE "Start"]

\* the delivery, had updateData asked the logic to recalculate
sig_data_updated_Recalc ==
    /\ gui.connections > 0
    /\ gui' = updateData(gui, scanning_logic)
    /\ scanning_logic' = logic_recalculate_histogram(scanning_logic,
           gui.bins_display, gui.min_wavelength_display, gui.max_wavelength_display)
    /\ lastOp' = Op("updateData", getState(scanning_logic),
                    <<Call("recalculate_histogram",
                           <<gui.bins_display, gui.min_wavelength_display,
                             gui.max_wavelength_display>>)>>, gui.connections)
    /\ clicks' = 0
    /\ UNCHANGED rest

\* sig_data_updated is delivered: every connection runs updateData
sig_data_updated ==
    /\ gui.connections > 0
    /\ gui' = updateData(gui, scanning_logic)
    /\ lastOp' = Op("updateData", getState(scanning_logic), <<>>, gui.connections)
    /\ clicks' = 0
    /\ UNCHANGED <<scanning_logic, rest>>

\* The logic works in a thread of its own and updateData takes no lock and no
\* copy: each attribute it reads is the one the logic holds at that moment.
\* One pass over the widgets g in which histogram_axis and the wavelength
\* limits are read from la, histogram for the first curve from lb, sumhisto
\* from lc, and histogram for the third curve and the state from ld.
updateData_between(g, la, lb, lc, ld) ==
    [g EXCEPT
        !.wavelength_label = <<la.current_wavelength, " nm">>,
        !.auto_min_label = <<"Minimum: ", la.intern_xmin, " (nm)   ">>,
        !.auto_max_label = <<"Maximum: ", la.intern_xmax, " (nm)   ">>,
        !.curve1 = [x |-> la.histogram_axis, y |-> lb.histogram],
        !.curve2 = [x |-> la.histogram_axis, y |-> lc.sumhisto],
        !.curve3 = [x |-> XAxisHzAll(la.histogram_axis, la.xmax + la.xmin),
                    y |-> ld.histogram],
        !.start_stop_button = IF getState(ld) = "running" THEN "Stop" ELSE "Start"]

\* the logic as it is, or with the arrays of another acquisition step
Replaced(l) ==
    {l} \cup { [l EXCEPT !.histogram_axis = d.histogram_axis,
                         !.histogram = d.histogram, !.sumhisto = d.sumhisto]
               : d \in LogicSamples }

\* sig_data_updated is delivered while the logic goes on working: the logic
\* may replace its arrays between any two reads of updateData
sig_data_updated_while_acquiring ==
    /\ gui.connections > 0
    /\ \E lb \in Replaced(scanning_logic) :
        \E lc \in Replaced(lb) :
        \E ld \in Replaced(lc) :
            /\ gui' = updateData_between(gui, scanning_logic, lb, lc, ld)
            /\ scanning_logic' = ld
    /\ lastOp' = Op("updateData", getState(scanning_logic), <<>>, gui.connections)
    /\ clicks' = 0
    /\ UNCHANGED rest

\* the run of consecutive clicks that began with a click on an idle logic
NextClicks(pre) ==
    IF clicks = 0
    THEN (IF pre = "idle" THEN 1 ELSE 0)
    ELSE (IF clicks < MaxClicks THEN clicks + 1 ELSE 0)

\* start_clicked, had it left the label to the next updateData
start_clicked_NoLabel ==
    /\ gui.active
    /\ IF getState(scanning_logic) = "running"
       THEN /\ scanning_logic' = stop_scanning(scanning_logic)
            /\ lastOp' = Op("start_clicked", getState(scanning_logic),
                            <<Call("stop_scanning", <<>>)>>, 0)
       ELSE /\ scanning_logic' = start_scanning(scanning_logic)
            /\ lastOp' = Op("start_clicked", getState(scanning_logic),
                            <<Call("start_scanning", <<>>)>>, 0)
    /\ clicks' = NextClicks(getState(scanning_logic))
    /\ UNCHANGED <<gui, rest>>

\* start_clicked, had both branches called start_scanning
start_clicked_BothStart ==
    /\ gui.active
    /\ gui' = [gui EXCEPT !.start_stop_button =
                   IF getState(scanning_logic) = "running" THEN "Start" ELSE "Stop"]
    /\ scanning_logic' = start_scanning(scanning_logic)
    /\ lastOp' = Op("start_clicked", getState(scanning_logic),
                    <<Call("start_scanning", <<>>)>>, 0)
    /\ clicks' = NextClicks(getState(scanning_logic))
    /\ UNCHANGED rest

start_clicked ==
    /\ gui.active
    /\ IF getState(scanning_logic) = "running"
       THEN /\ gui' = [gui EXCEPT !.start_stop_button = "Start"]
            /\ scanning_logic' = stop_scanning(scanning_logic)
            /\ lastOp' = Op("start_clicked", getState(scanning_logic),
                            <<Call("stop_scanning", <<>>)>>, 0)
       ELSE /\ gui' = [gui EXCEPT !.start_stop_button = "Stop"]
            /\ scanning_logic' = start_scanning(scanning_logic)
            /\ lastOp' = Op("start_clicked", getState(scanning_logic),
                            <<Call("start_scanning", <<>>)>>, 0)
    /\ clicks' = NextClicks(getState(scanning_logic))
    /\ UNCHANGED rest

\* the file name + extension an exporter writes:
\* filepath + '\\' + stamp + ext, with the backslash of the source
File(path, stamp, ext) == path \o <<"\\", stamp, ext>>

\* the last part of a file name, and the name without it
Extension(name) == name[Len(name)]
BaseName(name) == SubSeq(name, 1, Len(name) - 1)

\* os.path.dirname on a platform whose separator is sep: the name up to its
\* last separator
Dirname(name, sep) ==
    IF \A i \in DOMAIN name : name[i] # sep THEN <<>>
    ELSE LET last == CHOOSE i \in DOMAIN name :
                         name[i] = sep /\ \A j \in DOMAIN name : name[j] = sep => j <= i
         IN IF last = 1 THEN <<sep>> ELSE SubSeq(name, 1, last - 1)

\* save_clicked, had it not looked at _save_PNG
save_clicked_AlwaysPNG ==
    /\ gui.active
    /\ \E resolved \in PathSamples, stamp \in StampSamples :
          lastOp' = Op("save_clicked", resolved,
                       <<Call("get_path_for_module", <<"LaserScanning">>),
                         Call("export", <<File(resolved.path, stamp, ".svg")>>),
                         Call("export", <<File(resolved.path, stamp, ".png")>>),
                         Call("save_data", <<>>)>>,
                       0)
    /\ clicks' = 0
    /\ UNCHANGED <<scanning_logic, gui, rest>>

save_calls_DataFirst(g, resolved, stamp) ==
    <<Call("get_path_for_module", <<"LaserScanning">>),
      Call("save_data", <<>>),
      Call("export", <<File(resolved.path, stamp, ".svg")>>)>>
    \o (IF g.save_PNG THEN <<Call("export", <<File(resolved.path, stamp, ".png")>>)>>
        ELSE <<>>)

\* the calls of save_clicked, in their order, for the directory the save
\* logic resolves and the one time stamp the handler takes
save_calls(g, resolved, stamp) ==
    <<Call("get_path_for_module", <<"LaserScanning">>),
      Call("export", <<File(resolved.path, stamp, ".svg")>>)>>
    \o (IF g.save_PNG
        THEN <<Call("export", <<File(resolved.path, stamp, ".png")>>)>>
        ELSE <<>>)
    \o <<Call("save_data", <<>>)>>

save_clicked ==
    /\ gui.active
    /\ \E resolved \in PathSamples, stamp \in StampSamples :
          lastOp' = Op("save_clicked", resolved, save_calls(gui, resolved, stamp), 0)
    /\ clicks' = 0
    /\ UNCHANGED <<scanning_logic, gui, rest>>

\* the body of recalculate_histogram for widgets g: the call and the new logic
recalculate_call(g) ==
    Call("recalculate_histogram",
         <<g.bins_display, g.min_wavelength_display, g.max_wavelength_display>>)

\* recalculate_histogram, had it passed xmin and xmax the wrong way round
recalculate_histogram_Swapped ==
    /\ gui.active
    /\ scanning_logic' = logic_recalculate_histogram(scanning_logic,
           gui.bins_display, gui.max_wavelength_display, gui.min_wavelength_display)
    /\ lastOp' = Op("recalculate_histogram", None,
                    <<Call("recalculate_histogram",
                           <<gui.bins_display, gui.max_wavelength_display,
                             gui.min_wavelength_display>>)>>, 0)
    /\ clicks' = 0
    /\ UNCHANGED <<gui, rest>>

recalculate_histogram ==
    /\ gui.active
    /\ scanning_logic' = logic_recalculate_histogram(scanning_logic,
           gui.bins_display, gui.min_wavelength_display, gui.max_wavelength_display)
    /\ lastOp' = Op("recalculate_histogram", None, <<recalculate_call(gui)>>, 0)
    /\ clicks' = 0
    /\ UNCHANGED <<gui, rest>>

\* set_auto_range, had it not recalculated after setting the inputs
set_auto_range_NoRecalc ==
    /\ gui.active
    /\ gui' = [gui EXCEPT
                  !.min_wavelength_display =
                      MinWavelengthSetValue(scanning_logic.intern_xmin),
                  !.max_wavelength_display =
                      MaxWavelengthSetValue(scanning_logic.intern_xmax)]
    /\ lastOp' = Op("set_auto_range",
                    <<scanning_logic.intern_xmin, scanning_logic.intern_xmax>>,
                    <<>>, 0)
    /\ clicks' = 0
    /\ UNCHANGED <<scanning_logic, rest>>

set_auto_range ==
    /\ gui.active
    /\ LET g == [gui EXCEPT
                    !.min_wavelength_display =
                        MinWavelengthSetValue(scanning_logic.intern_xmin),
                    !.max_wavelength_display =
                        MaxWavelengthSetValue(scanning_logic.intern_xmax)]
       IN  /\ gui' = g
           /\ scanning_logic' = logic_recalculate_histogram(scanning_logic,
                  g.bins_display, g.min_wavelength_display, g.max_wavelength_display)
           /\ lastOp' = Op("set_auto_range",
                           <<scanning_logic.intern_xmin, scanning_logic.intern_xmax>>,
                           <<recalculate_call(g)>>, 0)
    /\ clicks' = 0
    /\ UNCHANGED rest

-----------------------------------------------------------------------------
(* What happens around the GUI *)

\* the user types a value into one of the three inputs
UserEdit ==
    /\ gui.active
    /\ \/ \E v \in BinsInputs : gui' = [gui EXCEPT !.bins_display = v]
       \/ \E v \in MinWavelengthInputs : gui' = [gui EXCEPT !.min_wavelength_display = v]
       \/ \E v \in MaxWavelengthInputs : gui' = [gui EXCEPT !.max_wavelength_display = v]
    /\ lastOp' = Op("UserEdit", None, <<>>, 0)
    /\ clicks' = 0
    /\ UNCHANGED <<scanning_logic, rest>>

\* _save_PNG is a plain attribute: the host may assign it
SetSavePNG ==
    /\ gui.active
    /\ gui' = [gui EXCEPT !.save_PNG = ~gui.save_PNG]
    /\ lastOp' = Op("SetSavePNG", None, <<>>, 0)
    /\ clicks' = 0
    /\ UNCHANGED <<scanning_logic, rest>>

\* the logic acquires data: its wavelengths and histogram arrays change
LogicAcquire ==
    /\ scanning_logic.connected
    /\ \E d \in LogicSamples :
          scanning_logic' =
              [scanning_logic EXCEPT
                  !.current_wavelength = d.current_wavelength,
                  !.intern_xmin = d.intern_xmin, !.intern_xmax = d.intern_xmax,
                  !.histogram_axis = d.histogram_axis, !.histogram = d.histogram,
                  !.sumhisto = d.sumhisto]
    /\ lastOp' = Op("LogicAcquire", None, <<>>, 0)
    /\ clicks' = 0
    /\ UNCHANGED <<gui, rest>>

\* the scan starts or ends without the GUI (another module, the hardware)
LogicStateChange ==
    /\ scanning_logic.connected
    /\ scanning_logic' =
           [scanning_logic EXCEPT
               !.state = IF scanning_logic.state = "running" THEN "idle" ELSE "running"]
    /\ lastOp' = Op("LogicStateChange", None, <<>>, 0)
    /\ clicks' = 0
    /\ UNCHANGED <<gui, rest>>

-----------------------------------------------------------------------------
(* ConfocalGui: Python values *)

\* A Python dict that is iterated is a sequence of
\* <<key, value>> pairs in insertion order; a dict that is only looked up is a
\* function.  An optional value (None or a value) is a sequence of length 0
\* or 1.  The key '{0},{1}'.format(*axes) of a scan is the tuple of its axes,
\* and so is the key axes[0] of a 1-D scan.

ResolutionMin == 2
ResolutionMax == 2147483647

\* positions and ranges are counted in 1/PositionScale of the axis unit
PositionScale == 2

NoneVal == <<>>
Some(v) == <<v>>

Max2(a, b) == IF a > b THEN a ELSE b
Min2(a, b) == IF a < b THEN a ELSE b

DictKeys(d) == {d[i][1] : i \in DOMAIN d}
DictGet(d, k) == d[CHOOSE i \in DOMAIN d : d[i][1] = k][2]
DictSet(d, k, v) ==
    IF k \in DictKeys(d)
    THEN [i \in DOMAIN d |-> IF d[i][1] = k THEN <<k, v>> ELSE d[i]]
    ELSE Append(d, <<k, v>>)

Raise(name) == Call("raise", <<name>>)
\* what a handler leaves behind: the object, the signals and calls it made,
\* and the exception that ended it, if one did
Done(g, calls) == [g |-> g, calls |-> calls, raised |-> NoneVal]
Failed(g, calls, name) == [g |-> g, calls |-> Append(calls, Raise(name)), raised |-> Some(name)]

-----------------------------------------------------------------------------
(* The toolkit's input widgets *)

\* a spin box or slider: a value kept inside [minimum, maximum]
Widget(lo, hi) ==
    [value |-> Bound(0, lo, hi), minimum |-> lo, maximum |-> hi, suffix |-> "",
     blocked |-> FALSE]

\* QSpinBox / QSlider as constructed, and the floating-point spin box of the
\* project, which starts without limits
QtWidget == Widget(0, 99 * PositionScale)
ScienDSpinBox == Widget(-ResolutionMax, ResolutionMax)

\* setRange(minimum, maximum): a maximum below the minimum is raised to it,
\* and the value is brought into the new range
setRange(w, lo, hi) ==
    LET top == Max2(lo, hi)
    IN [w EXCEPT !.minimum = lo, !.maximum = top, !.value = Bound(w.value, lo, top)]

\* the whole number a QSlider makes of a position: the fraction is dropped
SliderInt(v) ==
    IF v >= 0 THEN (v \div PositionScale) * PositionScale
    ELSE -(((-v) \div PositionScale) * PositionScale)

\* QSpinBox.setValue / QSlider.setValue
setValue(w, v) == [w EXCEPT !.value = Bound(v, w.minimum, w.maximum)]

\* ScienDSpinBox.setValue
ScienDSpinBox_setValue(w, v) == [w EXCEPT !.value = Bound(v, w.minimum, w.maximum)]

setSuffix(w, unit) == [w EXCEPT !.suffix = unit]

\* QObject.blockSignals
blockSignals(w, block) == [w EXCEPT !.blocked = block]

\* the valueChanged signal of a widget w that setValue has made w2: emitted when
\* the value has changed and the signals of the widget are not blocked
valueChanged(name, w, w2) ==
    IF w2.value # w.value /\ ~w.blocked
    THEN <<Call("valueChanged", <<name, w2.value>>)>> ELSE <<>>

-----------------------------------------------------------------------------
(* bytes and their hexadecimal text *)

HexDigits == <<"0", "1", "2", "3", "4", "5", "6", "7",
               "8", "9", "a", "b", "c", "d", "e", "f">>

HexByte_NoPad(b) ==
    IF b < 16 THEN <<HexDigits[b + 1]>>
    ELSE <<HexDigits[(b \div 16) + 1], HexDigits[(b % 16) + 1]>>

\* bytearray.hex(): two lowercase digits for every byte
HexByte(b) == <<HexDigits[(b \div 16) + 1], HexDigits[(b % 16) + 1]>>

RECURSIVE hex(_)
hex(bytes) == IF bytes = <<>> THEN <<>> ELSE HexByte(Head(bytes)) \o hex(Tail(bytes))

IsHexDigit(c) == \E i \in DOMAIN HexDigits : HexDigits[i] = c
DigitValue(c) == (CHOOSE i \in DOMAIN HexDigits : HexDigits[i] = c) - 1

\* bytearray.fromhex(text): ValueError unless the text is pairs of digits
RECURSIVE fromhex(_)
fromhex(text) ==
    IF text = <<>> THEN [ok |-> TRUE, bytes |-> <<>>]
    ELSE IF Len(text) < 2 \/ ~IsHexDigit(text[1]) \/ ~IsHexDigit(text[2])
    THEN [ok |-> FALSE, bytes |-> <<>>]
    ELSE LET r == fromhex(SubSeq(text, 3, Len(text)))
         IN [ok |-> r.ok,
             bytes |-> <<16 * DigitValue(text[1]) + DigitValue(text[2])>> \o r.bytes]

-----------------------------------------------------------------------------
(* The confocal logic, by its interface, and the values arriving from it *)

\* longest geometry blob the toolkit writes, in bytes
MaxBlobLen == 2

ScannerAxes == <<"x", "y">>

Constraint(minres, maxres, lo, hi) ==
    [min_resolution |-> minres, max_resolution |-> maxres,
     min_value |-> lo, max_value |-> hi, unit |-> "m"]

\* scanner_constraints of two scanners: one that reports resolutions from 1
\* on, one with no upper limit of its own
ConstraintSamples ==
    { [a \in {"x", "y"} |-> Constraint(1, 1000, 0, 100)],
      [a \in {"x", "y"} |-> Constraint(10, ResolutionMax, -50, 50)] }

ScanAxesSample == << <<"x", "y">>, <<"y", "x">>, <<"x">> >>

\* scanner_settings of the logic
LogicSettings ==
    [pixel_clock_frequency |-> 1000,
     backscan_speed |-> 50,
     scan_resolution |-> << <<"x", 100>>, <<"y", 100>> >>,
     scan_range |-> << <<"x", <<0, 10>> >>, <<"y", <<0, 10>> >> >>]
    @@ ("2d_scan_axes" :> ScanAxesSample)

\* settings dicts handed to scanner_settings_updated
SettingsInputs ==
    { [scan_resolution |-> << <<"x", 100>> >>,
       scan_range |-> << <<"x", <<0, 10>> >> >>],
      [scan_resolution |-> << <<"x", 1>>, <<"y", 5000>> >>],
      [scan_range |-> << <<"y", <<-80, 200>> >> >>],
      [scan_range |-> << <<"x", <<20, 30>> >>, <<"y", <<40, 45>> >> >>],
      [pixel_clock_frequency |-> 2000, backscan_speed |-> 10],
      [scan_resolution |-> << <<"y", 64>>, <<"w", 8>>, <<"x", 32>> >>] }

LogicPosition == << <<"x", 0>>, <<"y", 0>> >>

\* position dicts handed to scanner_position_updated
PositionInputs ==
    { << <<"x", 5>>, <<"y", 7>> >>,
      << <<"y", 500>> >>,
      << <<"x", -60>> >> }

Frame(names, extent, unit) == [axes |-> [names |-> names, extent |-> extent], unit |-> unit]
FrameWithScan(names, extent, unit, scan) ==
    [axes |-> [names |-> names, extent |-> extent], unit |-> unit, scan |-> scan]

LogicScanData ==
    << FrameWithScan(<<"x", "y">>, << <<0, 10>>, <<0, 10>> >>, "c/s", "image0"),
       FrameWithScan(<<"x">>, << <<0, 10>> >>, "c/s", "line0") >>

\* scan data lists handed to scan_data_updated
ScanDataInputs ==
    { << FrameWithScan(<<"x", "y">>, << <<0, 5>>, <<0, 5>> >>, "V", "image1") >>,
      << FrameWithScan(<<"x">>, << <<0, 5>> >>, "V", "line1"),
         Frame(<<"x">>, << <<0, 5>> >>, "A") >>,
      << Frame(<<"x", "y">>, << <<1, 2>>, <<1, 2>> >>, "V") >>,
      << FrameWithScan(<<"x", "y">>, << <<0, 7>>, <<0, 7>> >>, "V", "image2"),
         Frame(<<"y", "x">>, << <<3, 4>>, <<3, 4>> >>, "A") >> }

NoScanner ==
    [connected |-> FALSE, scanner_axes_names |-> <<>>, scanner_constraints |-> <<>>,
     scanner_settings |-> <<>>, scanner_position |-> <<>>, scan_data |-> <<>>]

\* the blobs the toolkit writes for a window: bytes with and without a high
\* nibble
ByteSamples == {10, 171}
RECURSIVE BlobsOfLen(_)
BlobsOfLen(n) ==
    IF n = 0 THEN {<<>>}
    ELSE {Append(b, x) : b \in BlobsOfLen(n - 1), x \in ByteSamples}
GeometryBlobs == UNION {BlobsOfLen(n) : n \in 1..MaxBlobLen}
StateBlobs == {<<0, 255>>, <<171>>}
DefaultGeometry == <<1>>
DefaultState == <<2>>

Keys == {"Right", "Left", "Up", "Down", "PageUp", "PageDown", "A"}
Modifiers == {"NoModifier", "ControlModifier"}

-----------------------------------------------------------------------------
(* ConfocalGui: construction of the window *)

SettingDialog ==
    [pixel_clock_frequency_scienSpinBox |-> ScienDSpinBox,
     backscan_speed_scienSpinBox |-> ScienDSpinBox]

CguiInit ==
    [active |-> FALSE,
     ssd |-> NoneVal,
     axes_control_widgets |-> <<>>,
     optimizer_settings_axes_widgets |-> <<>>,
     scan_2d_dockwidgets |-> <<>>,
     scan_1d_dockwidgets |-> <<>>,
     optimizer_dockwidget |-> NoneVal,
     tilt_correction_dockwidget |-> NoneVal,
     scan_2d_images |-> <<>>,
     scan_1d_plots |-> <<>>,
     window_geometry |-> NoneVal,
     window_state |-> NoneVal]

NoWindow ==
    [exists |-> FALSE, visible |-> FALSE, nesting |-> FALSE,
     geometry |-> <<>>, state |-> <<>>]

\* ConfocalMainWindow(): a window as the toolkit lays it out
ConfocalMainWindow ==
    [exists |-> TRUE, visible |-> FALSE, nesting |-> FALSE,
     geometry |-> DefaultGeometry, state |-> DefaultState]

\* a dock widget, with the labels of the plot it holds
Dock(title, area, bottom, left) ==
    [title |-> title, area |-> area, shown |-> FALSE, floating |-> FALSE,
     tabbed_on |-> NoneVal, below |-> NoneVal,
     bottom |-> bottom, left |-> left, colorbar |-> NoneVal]

LastIndex(names, a) == CHOOSE i \in DOMAIN names :
                           names[i] = a /\ \A j \in DOMAIN names : names[j] = a => j <= i

generate_axes_control_widgets_Shared(l) ==
    [a \in {l.scanner_axes_names[i] : i \in DOMAIN l.scanner_axes_names} |->
        [label |-> <<a, "-Axis:">>,
         index |-> 1,
         static |-> TRUE,
         res_spinbox |-> Widget(ResolutionMin, ResolutionMax),
         min_spinbox |-> ScienDSpinBox,
         max_spinbox |-> ScienDSpinBox,
         slider |-> QtWidget,
         pos_spinbox |-> ScienDSpinBox]]

\* the first axis takes the widgets of the window, every other axis gets new
\* ones, placed in row `index` of the layout; a name that comes again takes
\* the place of the earlier entry
generate_axes_control_widgets(l) ==
    [a \in {l.scanner_axes_names[i] : i \in DOMAIN l.scanner_axes_names} |->
        [label |-> <<a, "-Axis:">>,
         index |-> LastIndex(l.scanner_axes_names, a),
         static |-> LastIndex(l.scanner_axes_names, a) = 1,
         res_spinbox |-> Widget(ResolutionMin, ResolutionMax),
         min_spinbox |-> ScienDSpinBox,
         max_spinbox |-> ScienDSpinBox,
         slider |-> QtWidget,
         pos_spinbox |-> ScienDSpinBox]]

generate_optimizer_axes_widgets(l) ==
    [a \in {l.scanner_axes_names[i] : i \in DOMAIN l.scanner_axes_names} |->
        [label |-> <<a, "-Axis:">>,
         index |-> LastIndex(l.scanner_axes_names, a),
         static |-> LastIndex(l.scanner_axes_names, a) = 1,
         range_spinbox |-> ScienDSpinBox,
         res_spinbox |-> Widget(ResolutionMin, ResolutionMax)]]

RECURSIVE generate_scan_dockwidgets(_, _, _)
generate_scan_dockwidgets(scan_axes, constraints, g) ==
    IF scan_axes = <<>> THEN g
    ELSE LET axes == Head(scan_axes)
             g1 == IF Len(axes) = 2
                   THEN [g EXCEPT !.scan_2d_dockwidgets = DictSet(@, axes,
                            Dock(<<axes[1], "-", axes[2], " Scan">>, "top",
                                 <<axes[1], constraints[axes[1]].unit>>,
                                 <<axes[2], constraints[axes[2]].unit>>))]
                   ELSE IF Len(axes) = 1
                   THEN [g EXCEPT !.scan_1d_dockwidgets = DictSet(@, axes,
                            Dock(<<axes[1], " Scan">>, "top",
                                 <<axes[1], constraints[axes[1]].unit>>,
                                 <<"scan data", "arb.u.">>))]
                   ELSE g
         IN generate_scan_dockwidgets(Tail(scan_axes), constraints, g1)

DefaultDocks_InPlace(docks, free) ==
    [i \in DOMAIN docks |->
        <<docks[i][1],
          [docks[i][2] EXCEPT !.shown = TRUE, !.floating = FALSE, !.area = "top",
                              !.tabbed_on = IF i > free THEN Some(docks[1][1])
                                            ELSE docks[i][2].tabbed_on]>>]

\* the i-th dock (counted from 1) of a dict, docked at the top, and tabbed on
\* the first dock when it comes after the first `free` docks.  addDockWidget
\* takes a dock out of the place it had before it puts it into the area.
DefaultDocks(docks, free) ==
    [i \in DOMAIN docks |->
        <<docks[i][1],
          [docks[i][2] EXCEPT !.shown = TRUE, !.floating = FALSE, !.area = "top",
                              !.below = NoneVal,
                              !.tabbed_on = IF i > free THEN Some(docks[1][1])
                                            ELSE NoneVal]>>]

restore_default_view(g) ==
    [g EXCEPT
        !.scan_2d_dockwidgets = DefaultDocks(@, 2),
        !.scan_1d_dockwidgets = DefaultDocks(@, 1),
        !.tilt_correction_dockwidget =
            Some([@[1] EXCEPT !.floating = FALSE, !.shown = FALSE, !.area = "left",
                              !.tabbed_on = NoneVal, !.below = NoneVal]),
        !.optimizer_dockwidget =
            Some([@[1] EXCEPT !.floating = FALSE, !.shown = TRUE, !.area = "top",
                              !.tabbed_on = NoneVal,
                              !.below =
                                  IF g.scan_1d_dockwidgets # <<>>
                                  THEN Some(g.scan_1d_dockwidgets[1][1])
                                  ELSE IF Len(g.scan_2d_dockwidgets) > 1
                                  THEN Some(g.scan_2d_dockwidgets[2][1])
                                  ELSE NoneVal])]

init_plots_NoLinePlots(g) ==
    [g EXCEPT
        !.scan_2d_images = [k \in DictKeys(g.scan_2d_dockwidgets) |->
                               [image |-> "zeros", extent |-> NoneVal]],
        !.scan_1d_plots = <<>>]

init_plots(g) ==
    [g EXCEPT
        !.scan_2d_images = [k \in DictKeys(g.scan_2d_dockwidgets) |->
                               [image |-> "zeros", extent |-> NoneVal]],
        !.scan_1d_plots = [k \in DictKeys(g.scan_1d_dockwidgets) |-> [data |-> "zeros"]]]

apply_scanner_constraints_Unclamped(g, l) ==
    LET constraints == l.scanner_constraints
        lo(a) == constraints[a].min_resolution
        hi(a) == Min2(ResolutionMax, constraints[a].max_resolution)
    IN [g EXCEPT
        !.axes_control_widgets = [a \in DOMAIN @ |->
            IF a \notin DOMAIN constraints THEN @[a]
            ELSE [@[a] EXCEPT
                !.res_spinbox = setRange(@, lo(a), hi(a)),
                !.min_spinbox = setSuffix(setRange(@, constraints[a].min_value,
                                                   constraints[a].max_value),
                                          constraints[a].unit),
                !.max_spinbox = setSuffix(setRange(@, constraints[a].min_value,
                                                   constraints[a].max_value),
                                          constraints[a].unit),
                !.pos_spinbox = setSuffix(setRange(@, constraints[a].min_value,
                                                   constraints[a].max_value),
                                          constraints[a].unit),
                !.slider = setRange(@, SliderInt(constraints[a].min_value),
                                    SliderInt(constraints[a].max_value))]],
        !.optimizer_settings_axes_widgets = [a \in DOMAIN @ |->
            IF a \notin DOMAIN constraints THEN @[a]
            ELSE [@[a] EXCEPT
                !.range_spinbox = setSuffix(setRange(@, 0, constraints[a].max_value
                                                       - constraints[a].min_value),
                                            constraints[a].unit),
                !.res_spinbox = setRange(@, lo(a), hi(a))]]]

-------------------------------------------------------------------

\* every constrained axis of the samples is a scanner axis
apply_scanner_constraints(g, l) ==
    LET constraints == l.scanner_constraints
        lo(a) == Max2(ResolutionMin, constraints[a].min_resolution)
        hi(a) == Min2(ResolutionMax, constraints[a].max_resolution)
    IN [g EXCEPT
        !.axes_control_widgets = [a \in DOMAIN @ |->
            IF a \notin DOMAIN constraints THEN @[a]
            ELSE [@[a] EXCEPT
                !.res_spinbox = setRange(@, lo(a), hi(a)),
                !.min_spinbox = setSuffix(setRange(@, constraints[a].min_value,
                                                   constraints[a].max_value),
                                          constraints[a].unit),
                !.max_spinbox = setSuffix(setRange(@, constraints[a].min_value,
                                                   constraints[a].max_value),
                                          constraints[a].unit),
                !.pos_spinbox = setSuffix(setRange(@, constraints[a].min_value,
                                                   constraints[a].max_value),
                                          constraints[a].unit),
                !.slider = setRange(@, SliderInt(constraints[a].min_value),
                                    SliderInt(constraints[a].max_value))]],
        !.optimizer_settings_axes_widgets = [a \in DOMAIN @ |->
            IF a \notin DOMAIN constraints THEN @[a]
            ELSE [@[a] EXCEPT
                !.range_spinbox = setSuffix(setRange(@, 0, constraints[a].max_value
                                                       - constraints[a].min_value),
                                            constraints[a].unit),
                !.res_spinbox = setRange(@, lo(a), hi(a))]]]

-----------------------------------------------------------------------------
(* ConfocalGui: the update handlers *)

\* w.blockSignals(True); w.setValue(v); w.blockSignals(False): the widget
\* left behind and the signals emitted on the way
Quietly(name, w, w2) ==
    [w |-> blockSignals(w2, FALSE), calls |-> valueChanged(name, blockSignals(w, TRUE), w2)]

\* res_spinbox.setValue(resolution) between blockSignals(True) and (False)
SetResolution(g, axis, resolution) ==
    LET w == g.axes_control_widgets[axis].res_spinbox
        s == Quietly("res_spinbox", w, setValue(blockSignals(w, TRUE), resolution))
    IN [g |-> [g EXCEPT !.axes_control_widgets[axis].res_spinbox = s.w],
        calls |-> s.calls]

SetScanRange_Swapped(g, axis, axis_range) ==
    LET lo == g.axes_control_widgets[axis].min_spinbox
        hi == g.axes_control_widgets[axis].max_spinbox
        s1 == Quietly("min_spinbox", lo,
                      ScienDSpinBox_setValue(blockSignals(lo, TRUE), axis_range[2]))
        s2 == Quietly("max_spinbox", hi,
                      ScienDSpinBox_setValue(blockSignals(hi, TRUE), axis_range[1]))
    IN [g |-> [g EXCEPT !.axes_control_widgets[axis].min_spinbox = s1.w,
                        !.axes_control_widgets[axis].max_spinbox = s2.w],
        calls |-> s1.calls \o s2.calls]

\* min_spinbox.setValue(axis_range[0]); max_spinbox.setValue(axis_range[1]),
\* between blockSignals(True) and blockSignals(False) of both
SetScanRange(g, axis, axis_range) ==
    LET lo == g.axes_control_widgets[axis].min_spinbox
        hi == g.axes_control_widgets[axis].max_spinbox
        s1 == Quietly("min_spinbox", lo,
                      ScienDSpinBox_setValue(blockSignals(lo, TRUE), axis_range[1]))
        s2 == Quietly("max_spinbox", hi,
                      ScienDSpinBox_setValue(blockSignals(hi, TRUE), axis_range[2]))
    IN [g |-> [g EXCEPT !.axes_control_widgets[axis].min_spinbox = s1.w,
                        !.axes_control_widgets[axis].max_spinbox = s2.w],
        calls |-> s1.calls \o s2.calls]

\* slider.setValue(pos); spinbox.setValue(pos), between blockSignals(True) and
\* blockSignals(False) of both
SetPosition(g, axis, pos) ==
    LET slider == g.axes_control_widgets[axis].slider
        spinbox == g.axes_control_widgets[axis].pos_spinbox
        s1 == Quietly("slider", slider, setValue(blockSignals(slider, TRUE), SliderInt(pos)))
        s2 == Quietly("pos_spinbox", spinbox,
                      ScienDSpinBox_setValue(blockSignals(spinbox, TRUE), pos))
    IN [g |-> [g EXCEPT !.axes_control_widgets[axis].slider = s1.w,
                        !.axes_control_widgets[axis].pos_spinbox = s2.w],
        calls |-> s1.calls \o s2.calls]

\* for axis, value in items: ... self.axes_control_widgets[axis] ...
RECURSIVE ResolutionLoop(_, _)
ResolutionLoop(r, items) ==
    IF items = <<>> \/ r.raised # NoneVal THEN r
    ELSE IF Head(items)[1] \notin DOMAIN r.g.axes_control_widgets
    THEN Failed(r.g, r.calls, "KeyError")
    ELSE LET s == SetResolution(r.g, Head(items)[1], Head(items)[2])
         IN ResolutionLoop(Done(s.g, r.calls \o s.calls), Tail(items))

RECURSIVE RangeLoop(_, _)
RangeLoop(r, items) ==
    IF items = <<>> \/ r.raised # NoneVal THEN r
    ELSE IF Head(items)[1] \notin DOMAIN r.g.axes_control_widgets
    THEN Failed(r.g, r.calls, "KeyError")
    ELSE LET s == SetScanRange(r.g, Head(items)[1], Head(items)[2])
         IN RangeLoop(Done(s.g, r.calls \o s.calls), Tail(items))

RECURSIVE PositionLoop(_, _)
PositionLoop(r, items) ==
    IF items = <<>> \/ r.raised # NoneVal THEN r
    ELSE IF Head(items)[1] \notin DOMAIN r.g.axes_control_widgets
    THEN Failed(r.g, r.calls, "KeyError")
    ELSE LET s == SetPosition(r.g, Head(items)[1], Head(items)[2])
         IN PositionLoop(Done(s.g, r.calls \o s.calls), Tail(items))

\* the two inputs of the settings dialog are set with their signals open
SetDialogValue(r, settings, name, box) ==
    IF name \notin DOMAIN settings THEN r
    ELSE LET w == r.g.ssd[1][box]
             w2 == ScienDSpinBox_setValue(w, settings[name])
         IN Done([r.g EXCEPT !.ssd = Some([@[1] EXCEPT ![box] = w2])],
                 r.calls \o valueChanged(box, w, w2))

\* the dict the handler works on: its argument, or the logic's when the
\* argument is not of the expected type
Given(arg, own) == IF arg = NoneVal THEN own ELSE arg[1]

scanner_settings_updated(g, l, arg) ==
    LET settings == Given(arg, l.scanner_settings)
        r1 == SetDialogValue(Done(g, <<>>), settings, "pixel_clock_frequency",
                             "pixel_clock_frequency_scienSpinBox")
        r2 == SetDialogValue(r1, settings, "backscan_speed", "backscan_speed_scienSpinBox")
        r3 == IF "scan_resolution" \in DOMAIN settings
              THEN ResolutionLoop(r2, settings["scan_resolution"]) ELSE r2
    IN IF "scan_range" \in DOMAIN settings
       THEN RangeLoop(r3, settings["scan_range"]) ELSE r3

scanner_position_updated(g, l, arg) ==
    PositionLoop(Done(g, <<>>), Given(arg, l.scanner_position))

\* one pass of the loop over the frames; key is the variable of that name,
\* empty while nothing has been assigned to it
RECURSIVE ScanDataLoop(_, _, _)
ScanDataLoop(r, frames, key) ==
    IF frames = <<>> \/ r.raised # NoneVal THEN r
    ELSE LET data == Head(frames)
             axes == data.axes.names
             g == r.g
         IN IF Len(axes) = 2
            THEN IF "scan" \in DOMAIN data /\ axes \notin DOMAIN g.scan_2d_images
                 THEN Failed(g, r.calls, "KeyError")
                 ELSE LET k == IF "scan" \in DOMAIN data THEN Some(axes) ELSE key
                          g1 == IF "scan" \in DOMAIN data
                                THEN [g EXCEPT !.scan_2d_images[axes].image = data.scan]
                                ELSE g
                      IN IF k = NoneVal
                         THEN Failed(g1, r.calls, "UnboundLocalError")
                         ELSE LET g2 == [g1 EXCEPT
                                    !.scan_2d_images[k[1]].extent = Some(data.axes.extent),
                                    !.scan_2d_dockwidgets = DictSet(@, k[1],
                                        [DictGet(@, k[1]) EXCEPT
                                            !.colorbar = Some(<<"scan data", data.unit>>)])]
                              IN ScanDataLoop(Done(g2, r.calls), Tail(frames), k)
            ELSE IF Len(axes) = 1
            THEN IF "scan" \in DOMAIN data /\ axes \notin DOMAIN g.scan_1d_plots
                 THEN Failed(g, r.calls, "KeyError")
                 ELSE LET g1 == IF "scan" \in DOMAIN data
                                THEN [g EXCEPT !.scan_1d_plots[axes].data = data.scan]
                                ELSE g
                      IN IF axes \notin DictKeys(g1.scan_1d_dockwidgets)
                         THEN Failed(g1, r.calls, "KeyError")
                         ELSE LET g2 == [g1 EXCEPT
                                    !.scan_1d_dockwidgets = DictSet(@, axes,
                                        [DictGet(@, axes) EXCEPT
                                            !.left = <<"scan data", data.unit>>])]
                              IN ScanDataLoop(Done(g2, r.calls), Tail(frames), key)
            ELSE ScanDataLoop(r, Tail(frames), key)

scan_data_updated(g, l, arg) ==
    ScanDataLoop(Done(g, <<>>), Given(arg, l.scan_data), NoneVal)

-----------------------------------------------------------------------------
(* ConfocalGui: activation, deactivation and the slots *)

\* what follows r when r ended without an exception
AndThen(r, s) ==
    IF r.raised # NoneVal THEN r
    ELSE [g |-> s.g, calls |-> r.calls \o s.calls, raised |-> s.raised]

TryRestore_KeepsStored(restore, stored, accept) ==
    IF stored = NoneVal
    THEN [calls |-> <<>>, stored |-> NoneVal, applied |-> NoneVal, raised |-> NoneVal]
    ELSE LET p == fromhex(stored[1])
         IN IF ~p.ok
            THEN [calls |-> <<Raise("ValueError")>>, stored |-> stored,
                  applied |-> NoneVal, raised |-> Some("ValueError")]
            ELSE [calls |-> <<Call(restore, <<p.bytes>>)>>
                            \o (IF accept THEN <<>> ELSE <<Call("debug", <<restore>>)>>),
                  stored |-> stored,
                  applied |-> IF accept THEN Some(p.bytes) ELSE NoneVal,
                  raised |-> NoneVal]

\* if stored is not None: if not restore(bytearray.fromhex(stored)): stored = None,
\* and the refusal is written to the log
TryRestore(restore, stored, accept) ==
    IF stored = NoneVal
    THEN [calls |-> <<>>, stored |-> NoneVal, applied |-> NoneVal, raised |-> NoneVal]
    ELSE LET p == fromhex(stored[1])
         IN IF ~p.ok
            THEN [calls |-> <<Raise("ValueError")>>, stored |-> stored,
                  applied |-> NoneVal, raised |-> Some("ValueError")]
            ELSE [calls |-> <<Call(restore, <<p.bytes>>)>>
                            \o (IF accept THEN <<>> ELSE <<Call("debug", <<restore>>)>>),
                  stored |-> IF accept THEN stored ELSE NoneVal,
                  applied |-> IF accept THEN Some(p.bytes) ELSE NoneVal,
                  raised |-> NoneVal]

\* accept_geometry and accept_state are the toolkit's answers to
\* restoreGeometry and restoreState
on_activate ==
    /\ scanner_logic.connected
    /\ ~cgui.active
    /\ \E accept_geometry \in BOOLEAN, accept_state \in BOOLEAN :
        LET l == scanner_logic
            g1 == [cgui EXCEPT
                     !.ssd = Some(SettingDialog),
                     !.optimizer_dockwidget =
                         Some(Dock("Optimizer", "none", NoneVal, NoneVal)),
                     !.tilt_correction_dockwidget =
                         Some(Dock("Tilt Correction", "none", NoneVal, NoneVal)),
                     !.axes_control_widgets = generate_axes_control_widgets(l),
                     !.optimizer_settings_axes_widgets =
                         generate_optimizer_axes_widgets(l),
                     !.scan_2d_dockwidgets = <<>>,
                     !.scan_1d_dockwidgets = <<>>]
            g2 == generate_scan_dockwidgets(l.scanner_settings["2d_scan_axes"],
                                            l.scanner_constraints, g1)
            g3 == restore_default_view(g2)
            rg == TryRestore("restoreGeometry", g3.window_geometry, accept_geometry)
            rs == IF rg.raised # NoneVal
                  THEN [calls |-> <<>>, stored |-> g3.window_state,
                        applied |-> NoneVal, raised |-> rg.raised]
                  ELSE TryRestore("restoreState", g3.window_state, accept_state)
            g4 == [g3 EXCEPT !.window_geometry = rg.stored, !.window_state = rs.stored]
            w == [ConfocalMainWindow EXCEPT
                     !.nesting = TRUE,
                     !.geometry = IF rg.applied # NoneVal THEN rg.applied[1] ELSE @,
                     !.state = IF rs.applied # NoneVal THEN rs.applied[1] ELSE @]
            r0 == [g |-> g4, calls |-> rg.calls \o rs.calls, raised |-> rs.raised]
            r1 == AndThen(r0, scanner_settings_updated(
                                  apply_scanner_constraints(init_plots(g4), l), l, NoneVal))
            r2 == AndThen(r1, scanner_position_updated(r1.g, l, NoneVal))
            r3 == AndThen(r2, scan_data_updated(r2.g, l, NoneVal))
        IN /\ cgui' = [r3.g EXCEPT !.active = (r3.raised = NoneVal)]
           /\ mw' = [w EXCEPT !.visible = (r3.raised = NoneVal)]
           /\ lastOp' = Op("on_activate",
                           [geometry |-> cgui.window_geometry,
                            state |-> cgui.window_state],
                           r3.calls, 0)
    /\ UNCHANGED <<scanner_logic, saved, laserVars, fq>>

on_deactivate ==
    /\ cgui.active
    /\ cgui' = [cgui EXCEPT !.window_geometry = Some(hex(mw.geometry)),
                            !.window_state = Some(hex(mw.state)),
                            !.active = FALSE]
    /\ mw' = [mw EXCEPT !.visible = FALSE]
    /\ saved' = Some([geometry |-> mw.geometry, state |-> mw.state])
    /\ lastOp' = Op("on_deactivate", None,
                    <<Call("saveGeometry", <<>>), Call("saveState", <<>>),
                      Call("close", <<>>)>>, 0)
    /\ UNCHANGED <<scanner_logic, laserVars, fq>>

\* the user moves or resizes the window
UserMovesWindow ==
    /\ mw.visible
    /\ \E blob \in GeometryBlobs :
        /\ mw' = [mw EXCEPT !.geometry = blob]
        /\ lastOp' = Op("UserMovesWindow", blob, <<>>, 0)
    /\ UNCHANGED <<scanner_logic, cgui, saved, laserVars, fq>>

\* the user rearranges the docks
UserArrangesDocks ==
    /\ mw.visible
    /\ \E blob \in StateBlobs :
        /\ mw' = [mw EXCEPT !.state = blob]
        /\ lastOp' = Op("UserArrangesDocks", blob, <<>>, 0)
    /\ UNCHANGED <<scanner_logic, cgui, saved, laserVars, fq>>

Slot_scanner_settings_updated ==
    /\ cgui.active
    /\ \E arg \in {NoneVal} \cup {Some(s) : s \in SettingsInputs} :
        LET r == scanner_settings_updated(cgui, scanner_logic, arg)
        IN /\ cgui' = r.g
           /\ lastOp' = Op("scanner_settings_updated", arg, r.calls, 0)
    /\ UNCHANGED <<scanner_logic, mw, saved, laserVars, fq>>

Slot_scanner_position_updated ==
    /\ cgui.active
    /\ \E arg \in {NoneVal} \cup {Some(p) : p \in PositionInputs} :
        LET r == scanner_position_updated(cgui, scanner_logic, arg)
        IN /\ cgui' = r.g
           /\ lastOp' = Op("scanner_position_updated", arg, r.calls, 0)
    /\ UNCHANGED <<scanner_logic, mw, saved, laserVars, fq>>

Slot_scan_data_updated ==
    /\ cgui.active
    /\ \E arg \in {NoneVal} \cup {Some(d) : d \in ScanDataInputs} :
        LET r == scan_data_updated(cgui, scanner_logic, arg)
        IN /\ cgui' = r.g
           /\ lastOp' = Op("scan_data_updated", arg, r.calls, 0)
    /\ UNCHANGED <<scanner_logic, mw, saved, laserVars, fq>>

\* ConfocalMainWindow.keyPressEvent: on_activate connects no slot to the signal
keyPressEvent ==
    /\ mw.visible
    /\ \E key \in Keys, modifiers \in Modifiers :
        lastOp' = Op("keyPressEvent", <<key, modifiers>>,
                     <<Call("sigKeyboardPressed", <<key, modifiers>>)>>, 0)
    /\ UNCHANGED <<confVars, laserVars, fq>>

\* the handler with the body that the source keeps in comments
move_scanner_by_keyboard_event_Enabled ==
    /\ cgui.active
    /\ \E key \in Keys, modifiers \in Modifiers :
        /\ cgui' = IF key = "Right"
                   THEN SetPosition(cgui, "x",
                                    cgui.axes_control_widgets["x"].pos_spinbox.value + 1).g
                   ELSE cgui
        /\ lastOp' = Op("move_scanner_by_keyboard_event", <<key, modifiers>>, <<>>, 0)
    /\ UNCHANGED <<scanner_logic, mw, saved, laserVars, fq>>

move_scanner_by_keyboard_event ==
    /\ cgui.active
    /\ \E key \in Keys, modifiers \in Modifiers :
        lastOp' = Op("move_scanner_by_keyboard_event", <<key, modifiers>>, <<>>, 0)
    /\ UNCHANGED <<confVars, laserVars, fq>>

InitConfocal ==
    /\ \E c \in ConstraintSamples :
        scanner_logic = [connected |-> TRUE,
                         scanner_axes_names |-> ScannerAxes,
                         scanner_constraints |-> c,
                         scanner_settings |-> LogicSettings,
                         scanner_position |-> LogicPosition,
                         scan_data |-> LogicScanData]
    /\ cgui = CguiInit
    /\ mw = NoWindow
    /\ saved = NoneVal

\* no confocal module loaded
ConfocalIdle ==
    /\ scanner_logic = NoScanner
    /\ cgui = CguiInit
    /\ mw = NoWindow
    /\ saved = NoneVal

\* no laser scanning module loaded
LaserIdle ==
    /\ scanning_logic = NoLogic
    /\ gui = GuiInit
    /\ clicks = 0

-----------------------------------------------------------------------------
(* LaserScanningGui: handlers whose backend call fails *)

\* No handler of LaserScanningGui catches an exception.  When the k-th call of
\* a handler raises, the handler ends there: what it did before stays, the
\* failed call has no effect, and the rest of the handler does not run.

Aborted_Retried(calls, k) == SubSeq(calls, 1, k) \o <<calls[k], Raise("Exception")>>

\* the calls of a handler whose k-th call raises
Aborted(calls, k) == SubSeq(calls, 1, k) \o <<Raise("Exception")>>

start_clicked_raises ==
    /\ gui.active
    /\ gui' = [gui EXCEPT !.start_stop_button =
                  IF getState(scanning_logic) = "running" THEN "Start" ELSE "Stop"]
    /\ lastOp' = Op("start_clicked", getState(scanning_logic),
                    Aborted(<<Call(IF getState(scanning_logic) = "running"
                                   THEN "stop_scanning" ELSE "start_scanning", <<>>)>>, 1),
                    0)
    /\ clicks' = 0
    /\ UNCHANGED <<scanning_logic, rest>>

save_clicked_raises ==
    /\ gui.active
    /\ \E resolved \in PathSamples, stamp \in StampSamples :
          \E k \in DOMAIN save_calls(gui, resolved, stamp) :
              lastOp' = Op("save_clicked", resolved,
                           Aborted(save_calls(gui, resolved, stamp), k), 0)
    /\ clicks' = 0
    /\ UNCHANGED <<scanning_logic, gui, rest>>

recalculate_histogram_raises ==
    /\ gui.active
    /\ lastOp' = Op("recalculate_histogram", None, Aborted(<<recalculate_call(gui)>>, 1), 0)
    /\ clicks' = 0
    /\ UNCHANGED <<scanning_logic, gui, rest>>

set_auto_range_raises ==
    /\ gui.active
    /\ LET g == [gui EXCEPT
                    !.min_wavelength_display =
                        MinWavelengthSetValue(scanning_logic.intern_xmin),
                    !.max_wavelength_display =
                        MaxWavelengthSetValue(scanning_logic.intern_xmax)]
       IN  /\ gui' = g
           /\ lastOp' = Op("set_auto_range",
                           <<scanning_logic.intern_xmin, scanning_logic.intern_xmax>>,
                           Aborted(<<recalculate_call(g)>>, 1), 0)
    /\ clicks' = 0
    /\ UNCHANGED <<scanning_logic, rest>>

-----------------------------------------------------------------------------
(* The frequency transform on its own *)

FqInit == \E a \in 1..MaxLambda, b \in 1..MaxLambda, lmin \in (-1)..MaxLambda,
             lmax \in 0..MaxLambda :
             fq = [a |-> a, b |-> b, lmin |-> lmin, lmax |-> lmax,
                   fa |-> None, fb |-> None, done |-> FALSE]

FqIdle == [a |-> 1, b |-> 1, lmin |-> 1, lmax |-> 1,
           fa |-> None, fb |-> None, done |-> FALSE]

ApplyXAxisHz ==
    /\ ~fq.done
    /\ fq.lmin + fq.lmax # 0
    /\ fq' = [fq EXCEPT !.fa = XAxisHz(fq.a, fq.lmax + fq.lmin),
                        !.fb = XAxisHz(fq.b, fq.lmax + fq.lmin),
                        !.done = TRUE]
    /\ lastOp' = Op("XAxisHz", None, <<>>, 0)
    /\ UNCHANGED <<laserVars, confVars>>

-----------------------------------------------------------------------------
(* Specifications *)

Init ==
    /\ InitLaser
    /\ ConfocalIdle
    /\ lastOp = Op("init", None, <<>>, 0)
    /\ fq = FqIdle

\* the Start/Stop and Save buttons and the display of the data
Next ==
    \/ initUI
    \/ sig_data_updated
    \/ start_clicked
    \/ save_clicked
    \/ SetSavePNG
    \/ LogicAcquire
    \/ LogicStateChange

Spec == Init /\ [][Next]_vars

\* the histogram inputs
NextHist ==
    \/ initUI
    \/ recalculate_histogram
    \/ set_auto_range
    \/ UserEdit
    \/ LogicAcquire
    \/ sig_data_updated

SpecHist == Init /\ [][NextHist]_vars

InitFreq ==
    /\ LaserIdle
    /\ ConfocalIdle
    /\ lastOp = Op("init", None, <<>>, 0)
    /\ FqInit

NextFreq == ApplyXAxisHz

SpecFreq == InitFreq /\ [][NextFreq]_vars

\* the handlers of LaserScanningGui with backend calls that may fail
NextFail ==
    \/ initUI
    \/ start_clicked
    \/ start_clicked_raises
    \/ save_clicked
    \/ save_clicked_raises
    \/ recalculate_histogram
    \/ recalculate_histogram_raises
    \/ set_auto_range
    \/ set_auto_range_raises
    \/ SetSavePNG
    \/ LogicStateChange

SpecFail == Init /\ [][NextFail]_vars

InitConf ==
    /\ LaserIdle
    /\ InitConfocal
    /\ lastOp = Op("init", None, <<>>, 0)
    /\ fq = FqIdle

\* the inputs of the confocal window and the keyboard
NextConfocal ==
    \/ on_activate
    \/ on_deactivate
    \/ Slot_scanner_settings_updated
    \/ keyPressEvent
    \/ move_scanner_by_keyboard_event

SpecConfocal == InitConf /\ [][NextConfocal]_vars

\* the layout of the confocal window over sessions
NextLayout ==
    \/ on_activate
    \/ on_deactivate
    \/ UserMovesWindow
    \/ UserArrangesDocks

SpecLayout == InitConf /\ [][NextLayout]_vars

\* either module with the handlers of its data signals
InitSignals == Init \/ InitConf

NextSignals ==
    \/ initUI
    \/ LogicAcquire
    \/ LogicStateChange
    \/ sig_data_updated
    \/ on_activate
    \/ Slot_scanner_settings_updated
    \/ Slot_scanner_position_updated
    \/ Slot_scan_data_updated

SpecSignals == InitSignals /\ [][NextSignals]_vars

-----------------------------------------------------------------------------
(* ConfocalGui: the docks of the window *)

\* most docks the user has taken out of their default place at a time
MaxMovedDocks == 2

\* settings with other lists of scan axes: three 2-D and two 1-D scans with an
\* entry of three axes and a repeated entry; 2-D scans only; a single 2-D scan
ScanAxesSamples ==
    { ScanAxesSample,
      << <<"x", "y">>, <<"y", "x">>, <<"x", "x">>, <<"x">>, <<"y">>,
         <<"x", "y", "x">>, <<"x", "y">> >>,
      << <<"x", "y">>, <<"y", "x">> >>,
      << <<"x", "y">> >> }

\* the settings of a logic that scans the given axes, and its scan data: one
\* frame for the first scan, which has two axes in every sample
SettingsFor(scan_axes) ==
    [k \in DOMAIN LogicSettings |->
        IF k = "2d_scan_axes" THEN scan_axes ELSE LogicSettings[k]]

ScanDataFor(scan_axes) ==
    << FrameWithScan(scan_axes[1], << <<0, 10>>, <<0, 10>> >>, "c/s", "image0") >>

\* what the user does to a dock: drags it out of the window, closes it, or
\* drops it on another dock
DockMoves == {"float", "close", "tab"}

Moved(d, how, onto) ==
    IF how = "float"
    THEN [d EXCEPT !.floating = TRUE, !.area = "none", !.tabbed_on = NoneVal,
                   !.below = NoneVal]
    ELSE IF how = "close"
    THEN [d EXCEPT !.shown = FALSE]
    ELSE [d EXCEPT !.floating = FALSE, !.area = "top", !.tabbed_on = Some(onto),
                   !.below = NoneVal]

\* the docks of the window that are not where restore_default_view puts them
MovedDocks(g) ==
    LET h == restore_default_view(g)
    IN Cardinality({i \in DOMAIN g.scan_2d_dockwidgets :
                        g.scan_2d_dockwidgets[i] # h.scan_2d_dockwidgets[i]})
       + Cardinality({i \in DOMAIN g.scan_1d_dockwidgets :
                          g.scan_1d_dockwidgets[i] # h.scan_1d_dockwidgets[i]})
       + (IF g.optimizer_dockwidget # h.optimizer_dockwidget THEN 1 ELSE 0)
       + (IF g.tilt_correction_dockwidget # h.tilt_correction_dockwidget THEN 1 ELSE 0)

\* the user moves one dock of the window; a dock is dropped on the last 2-D
\* scan dock
UserMovesDock ==
    /\ cgui.active
    /\ MovedDocks(cgui) < MaxMovedDocks
    /\ \E how \in DockMoves :
        LET onto == cgui.scan_2d_dockwidgets[Len(cgui.scan_2d_dockwidgets)][1]
        IN /\ \/ \E i \in DOMAIN cgui.scan_2d_dockwidgets :
                    /\ i < Len(cgui.scan_2d_dockwidgets)
                    /\ cgui' = [cgui EXCEPT !.scan_2d_dockwidgets[i][2] =
                                                Moved(@, how, onto)]
              \/ \E i \in DOMAIN cgui.scan_1d_dockwidgets :
                    cgui' = [cgui EXCEPT !.scan_1d_dockwidgets[i][2] =
                                             Moved(@, how, onto)]
              \/ cgui' = [cgui EXCEPT !.optimizer_dockwidget =
                                          Some(Moved(@[1], how, onto))]
              \/ /\ how # "tab"
                 /\ cgui' = [cgui EXCEPT !.tilt_correction_dockwidget =
                                             Some([Moved(@[1], how, onto)
                                                       EXCEPT !.shown = TRUE])]
           /\ lastOp' = Op("UserMovesDock", how, <<>>, 0)
    /\ UNCHANGED <<scanner_logic, mw, saved, laserVars, fq>>

\* restore_default_view, called on the window as it stands
restore_default_view_called ==
    /\ cgui.active
    /\ cgui' = restore_default_view(cgui)
    /\ mw' = [mw EXCEPT !.nesting = TRUE]
    /\ lastOp' = Op("restore_default_view", MovedDocks(cgui), <<>>, 0)
    /\ UNCHANGED <<scanner_logic, saved, laserVars, fq>>

\* a scanner with one of the lists of scan axes
InitDocks ==
    /\ LaserIdle
    /\ \E c \in ConstraintSamples, scan_axes \in ScanAxesSamples :
        scanner_logic = [connected |-> TRUE,
                         scanner_axes_names |-> ScannerAxes,
                         scanner_constraints |-> c,
                         scanner_settings |-> SettingsFor(scan_axes),
                         scanner_position |-> LogicPosition,
                         scan_data |-> ScanDataFor(scan_axes)]
    /\ cgui = CguiInit
    /\ mw = NoWindow
    /\ saved = NoneVal
    /\ lastOp = Op("init", None, <<>>, 0)
    /\ fq = FqIdle

NextDocks ==
    \/ on_activate
    \/ UserMovesDock
    \/ restore_default_view_called

SpecDocks == InitDocks /\ [][NextDocks]_vars

-----------------------------------------------------------------------------
(* ConfocalGui: the widgets of the scanner axes *)

\* scanner_axes_names of four scanners: two axes in either order, a third axis
\* without constraints, and a name that is listed twice
AxesNamesSamples ==
    { ScannerAxes, <<"y", "x">>, <<"x", "y", "z">>, <<"x", "y", "x">> }

InitAxes ==
    /\ LaserIdle
    /\ \E c \in ConstraintSamples, names \in AxesNamesSamples :
        scanner_logic = [connected |-> TRUE,
                         scanner_axes_names |-> names,
                         scanner_constraints |-> c,
                         scanner_settings |-> LogicSettings,
                         scanner_position |-> LogicPosition,
                         scan_data |-> LogicScanData]
    /\ cgui = CguiInit
    /\ mw = NoWindow
    /\ saved = NoneVal
    /\ lastOp = Op("init", None, <<>>, 0)
    /\ fq = FqIdle

NextAxes ==
    \/ on_activate
    \/ on_deactivate
    \/ Slot_scanner_position_updated

SpecAxes == InitAxes /\ [][NextAxes]_vars

-----------------------------------------------------------------------------
(* LaserScanningGui: updateData beside a working logic *)

NextRace ==
    \/ initUI
    \/ LogicAcquire
    \/ LogicStateChange
    \/ sig_data_updated_while_acquiring

SpecRace == Init /\ [][NextRace]_vars

-----------------------------------------------------------------------------
(* Claims *)

\* C1: a start_clicked on an idle logic sets the button label to 'Stop' and the
\* next start_clicked sets it back to 'Start' (and so on, alternating), the
\* label being set by the click itself: no updateData pass lies between, and
\* each click issues its one backend command only.
C1_LabelToggles ==
    clicks > 0 =>
        /\ lastOp.op = "start_clicked"
        /\ lastOp.passes = 0
        /\ Len(lastOp.calls) = 1
        /\ gui.start_stop_button = (IF clicks % 2 = 1 THEN "Stop" ELSE "Start")

\* a second consecutive click has put the label back to 'Start'
C1_SecondClick == clicks = 2 /\ gui.start_stop_button = "Start"

\* C2 as stated: after set_auto_range the two inputs hold exactly intern_xmin
\* and intern_xmax, and one recalculate_histogram call carries those values.
C2_ExactAutoRange ==
    lastOp.op = "set_auto_range" =>
        /\ gui.min_wavelength_display = lastOp.pre[1]
        /\ gui.max_wavelength_display = lastOp.pre[2]
        /\ lastOp.calls = <<Call("recalculate_histogram",
                                 <<gui.bins_display, lastOp.pre[1], lastOp.pre[2]>>)>>

\* C2 amended: after set_auto_range the min input holds intern_xmin bounded to
\* [1, 1e6] and the max input holds intern_xmax bounded to [1, 1e4]; exactly one
\* recalculate_histogram call is issued, with the values the three inputs hold.
C2_BoundedAutoRange ==
    lastOp.op = "set_auto_range" =>
        /\ gui.min_wavelength_display =
               (IF lastOp.pre[1] < 1 THEN 1
                ELSE IF lastOp.pre[1] > 1000000 THEN 1000000 ELSE lastOp.pre[1])
        /\ gui.max_wavelength_display =
               (IF lastOp.pre[2] < 1 THEN 1
                ELSE IF lastOp.pre[2] > 10000 THEN 10000 ELSE lastOp.pre[2])
        /\ lastOp.calls = <<Call("recalculate_histogram",
                                 <<gui.bins_display, gui.min_wavelength_display,
                                   gui.max_wavelength_display>>)>>

\* set_auto_range has run on logic values outside the inputs' ranges
C2_OutOfRange ==
    /\ lastOp.op = "set_auto_range"
    /\ lastOp.pre[1] < 1
    /\ lastOp.pre[2] > 10000

\* C3: a save_clicked exports exactly two image files, the .svg then the .png,
\* when _save_PNG is set, and exactly one, the .svg, when it is not.
C3_FilesPerSave ==
    lastOp.op = "save_clicked" =>
        /\ Len(FilesExported) = (IF gui.save_PNG THEN 2 ELSE 1)
        /\ Extension(FilesExported[1].args[1]) = ".svg"
        /\ gui.save_PNG => Extension(FilesExported[2].args[1]) = ".png"

\* a save_clicked has run with PNG export off
C3_SavedWithoutPNG == lastOp.op = "save_clicked" /\ ~gui.save_PNG

\* C5: for wavelengths a < b, both above 0, and lambda_min + lambda_max > 0 the
\* transformed values satisfy f(a) > f(b).
C5_Decreasing ==
    (fq.done /\ fq.lmin + fq.lmax > 0 /\ 0 < fq.a /\ fq.a < fq.b)
        => FracGreater(fq.fa, fq.fb)

\* the transform has been applied to two different wavelengths, with a
\* negative lambda_min
C5_Applied == fq.done /\ fq.lmin + fq.lmax > 0 /\ fq.a < fq.b /\ fq.lmin < 0

\* C6: a click issues exactly one backend command: stop_scanning when the logic
\* state it read was running, start_scanning otherwise.
C6_OneCommandPerClick ==
    lastOp.op = "start_clicked" =>
        CommandsIssued =
            <<Call(IF lastOp.pre = "running" THEN "stop_scanning" ELSE "start_scanning",
                   <<>>)>>

\* a click has run on a running logic
C6_ClickedWhileRunning == lastOp.op = "start_clicked" /\ lastOp.pre = "running"

\* A claim about every run of a handler is a property of the steps; a step is
\* told from a stutter by the handler that ran, the number of its calls and
\* the objects the claim is about.

\* C7: the recalculate_histogram handler issues exactly one
\* recalculate_histogram call, with the values of the three inputs, and leaves
\* every widget as it was.
C7_RecalculateFromInputs ==
    [][lastOp'.op = "recalculate_histogram" =>
          /\ gui' = gui
          /\ lastOp'.calls =
                 <<Call("recalculate_histogram",
                        <<gui.bins_display, gui.min_wavelength_display,
                          gui.max_wavelength_display>>)>>
      ]_<<lastOp.op, Len(lastOp.calls), scanning_logic, gui>>

\* the handler has run after the user typed 1 into the bins input, with the
\* two wavelength inputs holding different values
C7_EditedThenRecalculated ==
    /\ lastOp.op = "recalculate_histogram"
    /\ lastOp.calls[1].args[1] = 1
    /\ lastOp.calls[1].args[2] # lastOp.calls[1].args[3]

\* C4 (as the spec states it): after scanner_settings_updated(settings) every
\* axis listed under scan_resolution shows exactly the given resolution, and
\* every axis listed under scan_range shows exactly the given lower and upper
\* value.
C4_ExactSettings ==
    (/\ lastOp.op = "scanner_settings_updated"
     /\ \A n \in DOMAIN lastOp.calls : lastOp.calls[n].fn # "raise") =>
        LET settings == Given(lastOp.pre, scanner_logic.scanner_settings)
            shown == cgui.axes_control_widgets
        IN /\ "scan_resolution" \in DOMAIN settings =>
                  \A i \in DOMAIN settings["scan_resolution"] :
                      LET item == settings["scan_resolution"][i]
                      IN item[1] \in DOMAIN shown =>
                             shown[item[1]].res_spinbox.value = item[2]
           /\ "scan_range" \in DOMAIN settings =>
                  \A i \in DOMAIN settings["scan_range"] :
                      LET item == settings["scan_range"][i]
                      IN item[1] \in DOMAIN shown =>
                             /\ shown[item[1]].min_spinbox.value = item[2][1]
                             /\ shown[item[1]].max_spinbox.value = item[2][2]

\* C4 (amended): after a scanner_settings_updated(settings) that names scanner
\* axes only, every axis listed under scan_resolution shows the given
\* resolution brought into [max(2, min_resolution), min(2^31 - 1,
\* max_resolution)] of the axis, and every axis listed under scan_range shows
\* the given lower and upper value, each brought into [min_value, max_value]
\* of the axis.
C4_BoundedSettings ==
    (/\ lastOp.op = "scanner_settings_updated"
     /\ \A n \in DOMAIN lastOp.calls : lastOp.calls[n].fn # "raise") =>
        LET settings == Given(lastOp.pre, scanner_logic.scanner_settings)
            limits == scanner_logic.scanner_constraints
            shown == cgui.axes_control_widgets
            Within(v, lo, hi) == IF v < lo THEN lo ELSE IF v > hi THEN hi ELSE v
            Low(a) == IF limits[a].min_resolution > 2 THEN limits[a].min_resolution ELSE 2
            High(a) == IF limits[a].max_resolution < 2147483647
                       THEN limits[a].max_resolution ELSE 2147483647
        IN /\ "scan_resolution" \in DOMAIN settings =>
                  \A i \in DOMAIN settings["scan_resolution"] :
                      LET item == settings["scan_resolution"][i]
                      IN shown[item[1]].res_spinbox.value =
                             Within(item[2], Low(item[1]), High(item[1]))
           /\ "scan_range" \in DOMAIN settings =>
                  \A i \in DOMAIN settings["scan_range"] :
                      LET item == settings["scan_range"][i]
                          a == item[1]
                      IN /\ shown[a].min_spinbox.value =
                                Within(item[2][1], limits[a].min_value, limits[a].max_value)
                         /\ shown[a].max_spinbox.value =
                                Within(item[2][2], limits[a].min_value, limits[a].max_value)

\* scanner_settings_updated has been given a resolution below 2 and a
\* resolution above the scanner's maximum, and has shown a range
C4_OutOfRange ==
    /\ lastOp.op = "scanner_settings_updated"
    /\ lastOp.pre # NoneVal
    /\ "scan_resolution" \in DOMAIN lastOp.pre[1]
    /\ lastOp.pre[1]["scan_resolution"][1][2] < 2
    /\ cgui.axes_control_widgets["x"].res_spinbox.value >= 2
    /\ cgui.axes_control_widgets["y"].max_spinbox.value = 45

\* C8: a handler of updated data (updateData; scan_data_updated,
\* scanner_settings_updated, scanner_position_updated) issues no backend
\* command and leaves the state of both logic objects as it was.
C8_HandlersOnlyDisplay ==
    [][lastOp'.op \in {"updateData", "scan_data_updated",
                       "scanner_settings_updated", "scanner_position_updated"} =>
           /\ scanning_logic' = scanning_logic
           /\ scanner_logic' = scanner_logic
           /\ \A n \in DOMAIN lastOp'.calls : lastOp'.calls[n].fn \notin Commands
      ]_<<lastOp.op, Len(lastOp.calls), scanning_logic, scanner_logic, gui, cgui>>

\* updateData has repainted the curves of a running scan
C8_RepaintedWhileRunning ==
    /\ lastOp.op = "updateData"
    /\ lastOp.passes > 0
    /\ getState(scanning_logic) = "running"
    /\ gui.start_stop_button = "Stop"
    /\ gui.curve1.x # <<>>

\* C9: a keyboard event changes nothing, whatever its key and modifiers:
\* move_scanner_by_keyboard_event changes no widget, no window, no scanner
\* position or other logic state and makes no call, and keyPressEvent of the
\* window does no more than emit sigKeyboardPressed, which no slot receives.
C9_KeyboardHandlerNoOp ==
    [][lastOp'.op \in {"move_scanner_by_keyboard_event", "keyPressEvent"} =>
           /\ cgui' = cgui
           /\ mw' = mw
           /\ scanner_logic' = scanner_logic
           /\ saved' = saved
           /\ lastOp'.passes = 0
           /\ \A n \in DOMAIN lastOp'.calls : lastOp'.calls[n].fn = "sigKeyboardPressed"
           /\ lastOp'.op = "move_scanner_by_keyboard_event" => lastOp'.calls = <<>>
      ]_<<lastOp.op, Len(lastOp.calls), scanner_logic, cgui, mw, saved>>

\* the handler has been given Ctrl+Right in a window that shows settings
C9_CtrlRightHandled ==
    /\ lastOp.op = "move_scanner_by_keyboard_event"
    /\ lastOp.pre = <<"Right", "ControlModifier">>
    /\ cgui.axes_control_widgets["y"].res_spinbox.value = 64

\* C10: an on_activate that follows an on_deactivate hands restoreGeometry
\* and restoreState exactly the blobs that saveGeometry and saveState produced
\* at that on_deactivate, once each: the hexadecimal text kept in between
\* decodes to the bytes it was made from.
C10_LayoutRoundTrip ==
    (lastOp.op = "on_activate" /\ saved # NoneVal) =>
        /\ \E n \in DOMAIN lastOp.calls :
               /\ lastOp.calls[n].fn = "restoreGeometry"
               /\ lastOp.calls[n].args = <<saved[1].geometry>>
        /\ \E n \in DOMAIN lastOp.calls :
               /\ lastOp.calls[n].fn = "restoreState"
               /\ lastOp.calls[n].args = <<saved[1].state>>
        /\ Cardinality({n \in DOMAIN lastOp.calls :
                           lastOp.calls[n].fn \in {"restoreGeometry", "restoreState"}}) = 2

\* a window that the user moved and rearranged has been closed and opened
\* again
C10_ReopenedAfterMove ==
    /\ lastOp.op = "on_activate"
    /\ saved # NoneVal
    /\ saved[1].geometry = <<10, 171>>
    /\ saved[1].state = <<0, 255>>

\* C11 (as the spec states it): the image files of one save_clicked lie in the
\* directory the save logic resolved, as the platform reads their names, and
\* their names are one base name, made from the one time stamp of the
\* invocation, followed by .svg or .png.
C11_OneNameUnderPath ==
    lastOp.op = "save_clicked" =>
        \A i \in DOMAIN FilesExported :
            LET name == FilesExported[i].args[1]
            IN /\ Dirname(name, lastOp.pre.sep) = lastOp.pre.path
               /\ BaseName(name) = BaseName(FilesExported[1].args[1])
               /\ Extension(name) \in {".svg", ".png"}

\* C12: whenever start_clicked or updateData has just run to its end, the
\* button reads 'Stop' if the logic is running and 'Start' if it is not,
\* whatever clicks, deliveries of the data signal and state changes of the
\* logic came before.
C12_LabelMirrorsState ==
    lastOp.op \in {"start_clicked", "updateData"} =>
        gui.start_stop_button =
            (IF getState(scanning_logic) = "running" THEN "Stop" ELSE "Start")

\* updateData, connected once, has run on a running logic
C12_UpdatedAfterStateChange ==
    /\ lastOp.op = "updateData"
    /\ lastOp.pre = "running"
    /\ clicks = 0
    /\ gui.start_stop_button = "Stop"
    /\ gui.connections = 1

\* C13: when a backend call of a handler raises, the handler ends with that
\* exception (nothing is called after it) and the call that failed has been
\* made once in that run of the handler, not again.
C13_NoRetry ==
    (/\ lastOp.op \in {"start_clicked", "save_clicked", "recalculate_histogram",
                       "set_auto_range"}
     /\ \E n \in DOMAIN lastOp.calls : lastOp.calls[n].fn = "raise") =>
        LET last == Len(lastOp.calls)
            failed == lastOp.calls[last - 1]
        IN /\ last >= 2
           /\ \A n \in DOMAIN lastOp.calls : lastOp.calls[n].fn = "raise" <=> n = last
           /\ failed.fn \in Commands \cup {"get_path_for_module", "export"}
           /\ Cardinality({n \in DOMAIN lastOp.calls :
                              /\ lastOp.calls[n].fn = failed.fn
                              /\ lastOp.calls[n].args = failed.args}) = 1

\* the export of the .svg has failed in a save_clicked with PNG export on
C13_SvgExportFailed ==
    /\ lastOp.op = "save_clicked"
    /\ gui.save_PNG
    /\ Len(lastOp.calls) = 3
    /\ lastOp.calls[2].fn = "export"
    /\ lastOp.calls[3].fn = "raise"

\* C14 (as the spec states it): after a scanner_position_updated that ran to
\* its end, for every axis of the position it was given (the logic's own
\* scanner_position when the argument is no dict) the slider and the position
\* spin box of that axis both hold the given position.
C14_ExactPosition ==
    (/\ lastOp.op = "scanner_position_updated"
     /\ \A n \in DOMAIN lastOp.calls : lastOp.calls[n].fn # "raise") =>
        LET position == Given(lastOp.pre, scanner_logic.scanner_position)
            shown == cgui.axes_control_widgets
        IN \A i \in DOMAIN position :
               LET axis == position[i][1]
                   pos == position[i][2]
               IN /\ shown[axis].slider.value = pos
                  /\ shown[axis].pos_spinbox.value = pos

\* C15 (as the spec states it): scan_data_updated does not fail on a list of
\* frames whose 2-axis frames all have an image, and for every 2-axis frame of
\* the list, with or without 'scan' and at any position, the extent and the
\* unit of the colorbar label are applied to the image item and the dock keyed
\* by that frame's own axis pair (the last frame of a pair decides).
C15_OwnAxesPair ==
    lastOp.op = "scan_data_updated" =>
        LET frames == Given(lastOp.pre, scanner_logic.scan_data)
            Names(i) == frames[i].axes.names
            Last(i) == \A j \in DOMAIN frames : Names(j) = Names(i) => j <= i
        IN (\A i \in DOMAIN frames :
                Len(Names(i)) = 2 => Names(i) \in DOMAIN cgui.scan_2d_images) =>
               /\ \A n \in DOMAIN lastOp.calls : lastOp.calls[n].fn # "raise"
               /\ \A i \in DOMAIN frames :
                      (Len(Names(i)) = 2 /\ Last(i)) =>
                          /\ cgui.scan_2d_images[Names(i)].extent
                                 = Some(frames[i].axes.extent)
                          /\ DictGet(cgui.scan_2d_dockwidgets, Names(i)).colorbar
                                 = Some(<<"scan data", frames[i].unit>>)

C18_RefusedRestoreFallsBack ==
    lastOp.op = "on_activate" =>
        LET Refused(restore) ==
                \E n \in DOMAIN lastOp.calls :
                    /\ lastOp.calls[n].fn = "debug"
                    /\ lastOp.calls[n].args = <<restore>>
            Tried(restore) ==
                \E n \in DOMAIN lastOp.calls : lastOp.calls[n].fn = restore
        IN /\ cgui.active /\ mw.visible
           /\ Tried("restoreGeometry") <=> lastOp.pre.geometry # NoneVal
           /\ Tried("restoreState") <=> lastOp.pre.state # NoneVal
           /\ Refused("restoreGeometry") =>
                  /\ cgui.window_geometry = NoneVal
                  /\ mw.geometry = DefaultGeometry
           /\ ~Refused("restoreGeometry") => cgui.window_geometry = lastOp.pre.geometry
           /\ Refused("restoreState") =>
                  /\ cgui.window_state = NoneVal
                  /\ mw.state = DefaultState
                  /\ restore_default_view(cgui) = cgui
           /\ ~Refused("restoreState") => cgui.window_state = lastOp.pre.state

\* the stored geometry was refused and the stored dock layout was restored
C18_GeometryRefusedStateKept ==
    /\ lastOp.op = "on_activate"
    /\ lastOp.pre.geometry # NoneVal
    /\ cgui.window_geometry = NoneVal
    /\ cgui.window_state # NoneVal
    /\ cgui.window_state = lastOp.pre.state
    /\ mw.state = <<171>>
    /\ mw.geometry = DefaultGeometry

C21_NoFeedback ==
    lastOp.op \in {"scanner_settings_updated", "scanner_position_updated"} =>
        /\ \A n \in DOMAIN lastOp.calls : lastOp.calls[n].fn # "valueChanged"
        /\ \A a \in DOMAIN cgui.axes_control_widgets :
               LET widgets == cgui.axes_control_widgets[a]
               IN /\ ~widgets.res_spinbox.blocked
                  /\ ~widgets.min_spinbox.blocked
                  /\ ~widgets.max_spinbox.blocked
                  /\ ~widgets.slider.blocked
                  /\ ~widgets.pos_spinbox.blocked
        /\ \A box \in DOMAIN cgui.ssd[1] : ~cgui.ssd[1][box].blocked

\* C22: the calls of a save_clicked, up to the one that raises if one does, are
\* the beginning of: get_path_for_module, export of the .svg file, export of
\* the .png file if PNG saving is on, save_data.  save_data is called at most
\* once, as the last call and after every export, exactly once when nothing
\* raises, and not at all when an export raises.
C22_SaveDataAfterExports ==
    lastOp.op = "save_clicked" =>
        LET calls == lastOp.calls
            failed == calls[Len(calls)].fn = "raise"
            made == IF failed THEN SubSeq(calls, 1, Len(calls) - 1) ELSE calls
            exports == IF gui.save_PNG THEN <<".svg", ".png">> ELSE <<".svg">>
            Saves == {n \in DOMAIN made : made[n].fn = "save_data"}
        IN /\ Len(made) >= 1
           /\ Len(made) <= Len(exports) + 2
           /\ made[1].fn = "get_path_for_module"
           /\ \A n \in DOMAIN made :
                  /\ (n > 1 /\ n <= Len(exports) + 1) =>
                         /\ made[n].fn = "export"
                         /\ Extension(made[n].args[1]) = exports[n - 1]
                  /\ n = Len(exports) + 2 => made[n].fn = "save_data"
           /\ Cardinality(Saves) <= 1
           /\ ~failed => Cardinality(Saves) = 1
           /\ (failed /\ made[Len(made)].fn = "export") => Saves = {}

\* the export of the .png file has failed after that of the .svg file
C22_PngExportFailed ==
    /\ lastOp.op = "save_clicked"
    /\ gui.save_PNG
    /\ Len(lastOp.calls) = 4
    /\ lastOp.calls[3].fn = "export"
    /\ lastOp.calls[4].fn = "raise"

\* C23 (as the spec states it): after every pass of updateData the x and y
\* sequences of each of the three curves have the same length and the two
\* histogram curves show the same intensities, whatever the logic does to its
\* arrays while the handler reads them.
C23_ConsistentSnapshot ==
    lastOp.op = "updateData" =>
        /\ Len(gui.curve1.x) = Len(gui.curve1.y)
        /\ Len(gui.curve2.x) = Len(gui.curve2.y)
        /\ Len(gui.curve3.x) = Len(gui.curve3.y)
        /\ gui.curve1.y = gui.curve3.y

\* C24 (as the spec states it): updateData is connected to the data-updated
\* signal only in a module whose widgets and curves exist, and every emission
\* of the signal runs exactly one pass of updateData, however often initUI has
\* run.
C24_OnePassPerEmission ==
    /\ gui.connections > 0 => (gui.active /\ gui.start_stop_button # None)
    /\ lastOp.op = "updateData" => lastOp.passes = 1

====
